---- MODULE Spec2Model ----
(***************************************************************************)
(* The /calculate_risk endpoint of python_api/app.py and the risk engine   *)
(* (quant_risk_engine) it calls.                                           *)
(*                                                                         *)
(* The endpoint is modelled statement by statement from app.py.  The       *)
(* engine is a native module whose source is not part of python_api; its   *)
(* operations (OptionPricer, PortfolioAggregator, VaREstimator,            *)
(* RiskEngine) are modelled from the design document, sections 4.1-4.4     *)
(* and 7.                                                                  *)
(*                                                                         *)
(* Reals are fixed-point integers: money, present values and Greeks are    *)
(* in thousandths (1000 = 1.0); rates and volatilities are in thousandths  *)
(* (200 = 0.2); strikes, spots and expiries are whole units.               *)
(***************************************************************************)
EXTENDS Integers, Sequences, FiniteSets, TLC

VARIABLES
    req,                  \* req[r]: the JSON body of request r, or NoRequest
    pc,                   \* pc[r]: the statement of calculate_risk request r is at
    pidx,                 \* pidx[r]: items consumed by "for item in portfolio_data"
    mseen,                \* mseen[r]: keys consumed by "for asset_id, md_py in ..."
    portfolio,            \* the quant_risk_engine.Portfolio objects (local "portfolio")
    market_data_map_cpp,  \* the dicts built at line 54 (local "market_data_map_cpp")
    result_cpp,           \* result_cpp[r]: what calculate_portfolio_risk returned
    exc,                  \* exc[r]: the exception caught at line 76, or NoException
    visited,              \* visited[r]: positions the aggregator looked at in the call
    responses             \* responses[r]: the HTTP responses produced for request r

vars == <<req, pc, pidx, mseen, portfolio, market_data_map_cpp, result_cpp, exc,
          visited, responses>>

---------------------------------------------------------------------------
(* Bounds of the model *)

NumRequests == 2
MaxItems == 2

Requests == 1..NumRequests

---------------------------------------------------------------------------
(* Small helpers *)

Abs(x) == IF x < 0 THEN -x ELSE x

Max(a, b) == IF a >= b THEN a ELSE b

\* floor of the square root of n, for 0 <= n < 2^30, by bisection on the bits
RECURSIVE ISqrtBits(_, _, _)
ISqrtBits(n, bit, acc) ==
    IF bit = 0 THEN acc
    ELSE LET half == bit \div 2
             cand == acc + bit
         IN  IF cand * cand <= n
             THEN ISqrtBits(n, half, cand)
             ELSE ISqrtBits(n, half, acc)

ISqrt(n) == ISqrtBits(n, 16384, 0)

EmptyMap == [a \in {} |-> 0]

---------------------------------------------------------------------------
(* quant_risk_engine: the data model (design document, section 3) *)

Call == "OptionType.Call"
Put == "OptionType.Put"

EuropeanOption(option_type, strike, time_to_expiry, underlying_asset_id) ==
    [option_type |-> option_type, strike |-> strike,
     time_to_expiry |-> time_to_expiry,
     underlying_asset_id |-> underlying_asset_id]

\* Portfolio(): a new portfolio holds no position
EmptyPortfolio == <<>>

\* Portfolio.add_instrument: positions are kept in insertion order, duplicates kept
add_instrument(p, option, quantity) ==
    Append(p, [instrument |-> option, quantity |-> quantity])

MarketData(asset_id, spot_price, risk_free_rate, volatility) ==
    [asset_id |-> asset_id, spot_price |-> spot_price,
     risk_free_rate |-> risk_free_rate, volatility |-> volatility]

---------------------------------------------------------------------------
(* quant_risk_engine: the error taxonomy (design document, section 7) *)

InvalidInstrumentError(option) ==
    [kind |-> "InvalidInstrumentError",
     message |-> "Strike must be positive"]

InvalidMarketDataError(market) ==
    [kind |-> "InvalidMarketDataError",
     message |-> "Spot price must be positive"]

MissingMarketDataError(asset_id) ==
    [kind |-> "MissingMarketDataError",
     message |-> "Market data not found for asset: " \o asset_id]

---------------------------------------------------------------------------
(* OptionPricer (design document, section 4.1) *)

\* the floor applied to a volatility <= 0, in thousandths: 1e-6 is below the
\* resolution and the closed form is evaluated at its limit
VolFloored(volatility) == IF volatility <= 0 THEN 0 ELSE volatility

Greeks(pv, delta, gamma, vega, theta) ==
    [pv |-> pv, delta |-> delta, gamma |-> gamma, vega |-> vega, theta |-> theta]

\* tau <= 0: intrinsic value, delta 1 / -1 in the money and 0 otherwise
PriceExpired(option, market) ==
    LET S == market.spot_price
        K == option.strike
    IN  IF option.option_type = Call
        THEN Greeks(1000 * Max(S - K, 0), IF S > K THEN 1000 ELSE 0, 0, 0, 0)
        ELSE Greeks(1000 * Max(K - S, 0), IF K > S THEN -1000 ELSE 0, 0, 0, 0)

\* tau > 0: the Black-Scholes-Merton closed form at strike 100, expiry 1 and
\* rate 0.05, the grid the model's inputs are drawn from, rounded to thousandths
PriceClosedForm(option, market) ==
    LET S == market.spot_price
        v == VolFloored(market.volatility)
    IN  CASE option.option_type = Call /\ S = 100 /\ v = 200 ->
                 Greeks(10451, 637, 19, 37524, -6414)
          [] option.option_type = Call /\ S = 150 /\ v = 200 ->
                 Greeks(54970, 991, 1, 3546, -5041)
          [] option.option_type = Call /\ S = 100 /\ v = 0 ->
                 Greeks(4877, 1000, 0, 0, -4756)
          [] option.option_type = Put /\ S = 100 /\ v = 200 ->
                 Greeks(5574, -363, 19, 37524, -1658)
          [] option.option_type = Put /\ S = 150 /\ v = 200 ->
                 Greeks(93, -9, 1, 3546, -285)
          [] option.option_type = Put /\ S = 100 /\ v = 0 ->
                 Greeks(0, 0, 0, 0, 0)

\* price(option, market): the per-unit values, or the error the pricer fails with
price(option, market) ==
    IF option.strike <= 0
    THEN [ok |-> FALSE, error |-> InvalidInstrumentError(option)]
    ELSE IF market.spot_price <= 0
    THEN [ok |-> FALSE, error |-> InvalidMarketDataError(market)]
    ELSE IF option.time_to_expiry <= 0
    THEN [ok |-> TRUE, greeks |-> PriceExpired(option, market)]
    ELSE [ok |-> TRUE, greeks |-> PriceClosedForm(option, market)]

---------------------------------------------------------------------------
(* PortfolioAggregator (design document, section 4.2) *)

ZeroTotals(market_data_map) ==
    [total_pv |-> 0, total_delta |-> 0, total_gamma |-> 0, total_vega |-> 0,
     total_theta |-> 0,
     exposure |-> [a \in DOMAIN market_data_map |-> 0]]

\* one position's per-unit values scaled by its quantity, added to the totals
Accumulate(totals, asset_id, g, quantity) ==
    [total_pv |-> totals.total_pv + quantity * g.pv,
     total_delta |-> totals.total_delta + quantity * g.delta,
     total_gamma |-> totals.total_gamma + quantity * g.gamma,
     total_vega |-> totals.total_vega + quantity * g.vega,
     total_theta |-> totals.total_theta + quantity * g.theta,
     exposure |-> [totals.exposure EXCEPT ![asset_id] = @ + quantity * g.delta]]

\* the loop over the positions from position i on, in portfolio order; the
\* first failure ends it.  visited counts the positions looked at.
RECURSIVE AggregateFrom(_, _, _, _)
AggregateFrom(p, market_data_map, i, totals) ==
    IF i > Len(p)
    THEN [ok |-> TRUE, totals |-> totals, visited |-> Len(p)]
    ELSE LET option == p[i].instrument
             asset_id == option.underlying_asset_id
         IN  IF asset_id \notin DOMAIN market_data_map
             THEN [ok |-> FALSE, error |-> MissingMarketDataError(asset_id),
                   visited |-> i]
             ELSE LET priced == price(option, market_data_map[asset_id])
                  IN  IF ~priced.ok
                      THEN [ok |-> FALSE, error |-> priced.error, visited |-> i]
                      ELSE AggregateFrom(p, market_data_map, i + 1,
                               Accumulate(totals, asset_id, priced.greeks,
                                          p[i].quantity))

aggregate(p, market_data_map) ==
    AggregateFrom(p, market_data_map, 1, ZeroTotals(market_data_map))

---------------------------------------------------------------------------
(* VaREstimator (design document, section 4.3) *)

\* z of the 95% one-tailed confidence level, in thousandths
Z95 == 1645

\* the square root of the 252 trading days of a year, in thousandths
SqrtTradingDays == 15875

\* annual volatility (thousandths) to daily volatility (hundred-thousandths)
DailyVolatility(volatility) == (volatility * 100000) \div SqrtTradingDays

\* the 1-day P&L standard deviation of one asset, in thousandths
AssetStd(delta_sum, market) ==
    (Abs(delta_sum * market.spot_price) * DailyVolatility(market.volatility))
        \div 100000

RECURSIVE SumOfSquares(_, _, _)
SumOfSquares(assets, exposure, market_data_map) ==
    IF assets = {} THEN 0
    ELSE LET a == CHOOSE x \in assets : TRUE
             s == AssetStd(exposure[a], market_data_map[a])
         IN  s * s + SumOfSquares(assets \ {a}, exposure, market_data_map)

estimate(exposure, market_data_map) ==
    Max(0, (Z95 * ISqrt(SumOfSquares(DOMAIN exposure, exposure, market_data_map)))
               \div 1000)

---------------------------------------------------------------------------
(* RiskEngine (design document, section 4.4) *)

\* calculate_portfolio_risk: aggregation, then the VaR merged into the result;
\* a failure of the aggregation is passed through unchanged
calculate_portfolio_risk(p, market_data_map) ==
    LET agg == aggregate(p, market_data_map)
    IN  IF ~agg.ok THEN agg
        ELSE [ok |-> TRUE, visited |-> agg.visited,
              result |->
                [total_pv |-> agg.totals.total_pv,
                 total_delta |-> agg.totals.total_delta,
                 total_gamma |-> agg.totals.total_gamma,
                 total_vega |-> agg.totals.total_vega,
                 total_theta |-> agg.totals.total_theta,
                 value_at_risk_95 |->
                     estimate(agg.totals.exposure, market_data_map)]]

---------------------------------------------------------------------------
(* app.py: the request and response models *)

\* the values PortfolioItem.type admits: Literal['call', 'put']
LiteralTypes == {"call", "put"}

\* str.lower() on the spellings the model's requests use
Lower(s) ==
    CASE s \in {"call", "Call", "CALL"} -> "call"
      [] s \in {"put", "Put", "PUT"} -> "put"
      [] OTHER -> s

\* PortfolioItem: the item is admitted when its type is one of the literals
PortfolioItemValid(item) == item.type \in LiteralTypes

\* mutant of CalculateRequestValid: the list must hold at least one item
CalculateRequestValidNonEmpty(body) ==
    /\ Len(body.portfolio) > 0
    /\ \A i \in 1..Len(body.portfolio) : PortfolioItemValid(body.portfolio[i])

\* CalculateRequest: a list of valid items (the list may be empty) and a dict
CalculateRequestValid(body) ==
    \A i \in 1..Len(body.portfolio) : PortfolioItemValid(body.portfolio[i])

\* the response to a body that fails validation; calculate_risk is not entered
ValidationErrorResponse ==
    [status_code |-> 422, detail |-> "Input should be 'call' or 'put'"]

\* mutant of ToRiskResult: value_at_risk_95 is filled from total_delta
ToRiskResultMixed(r_cpp) ==
    [total_pv |-> r_cpp.total_pv,
     total_delta |-> r_cpp.total_delta,
     total_gamma |-> r_cpp.total_gamma,
     total_vega |-> r_cpp.total_vega,
     total_theta |-> r_cpp.total_theta,
     value_at_risk_95 |-> r_cpp.total_delta]

\* RiskResult(...) from result_cpp, field by field
ToRiskResult(r_cpp) ==
    [total_pv |-> r_cpp.total_pv,
     total_delta |-> r_cpp.total_delta,
     total_gamma |-> r_cpp.total_gamma,
     total_vega |-> r_cpp.total_vega,
     total_theta |-> r_cpp.total_theta,
     value_at_risk_95 |-> r_cpp.value_at_risk_95]

SuccessResponse(r_cpp) == [status_code |-> 200, body |-> ToRiskResult(r_cpp)]

\* str(e): the message of the exception, without its class
Str(e) == e.message

\* mutant of HTTPExceptionFor: the error is swallowed and a zeroed RiskResult
\* is returned
HTTPExceptionSwallowed(e) ==
    [status_code |-> 200,
     body |-> [total_pv |-> 0, total_delta |-> 0, total_gamma |-> 0,
               total_vega |-> 0, total_theta |-> 0, value_at_risk_95 |-> 0]]

\* mutant of HTTPExceptionFor: the detail is a fixed text, the message is lost
HTTPExceptionGeneric(e) ==
    [status_code |-> 500, detail |-> "Internal Server Error"]

\* HTTPException(status_code=500, detail=str(e))
HTTPExceptionFor(e) == [status_code |-> 500, detail |-> Str(e)]

\* mutant of OptionTypeOf: the type is compared without lower(), to "Call"
OptionTypeOfExact(type) == IF type = "Call" THEN Call ELSE Put

\* item.type to the engine's OptionType
OptionTypeOf(type) == IF Lower(type) = "call" THEN Call ELSE Put

\* mutant of ItemAt: the items are walked from the last to the first
ItemAtReversed(portfolio_data, k) == portfolio_data[Len(portfolio_data) - k]

\* the item "for item in portfolio_data" yields after k items
ItemAt(portfolio_data, k) == portfolio_data[k + 1]

\* the EuropeanOption built from an item and the quantity passed with it
OptionOf(item) ==
    EuropeanOption(OptionTypeOf(item.type), item.strike, item.expiry, item.asset_id)

\* mutant of QuantityOf: the sign of the quantity is dropped
QuantityOfUnsigned(item) == Abs(item.quantity)

QuantityOf(item) == item.quantity

\* md_cpp built from one entry of req.market_data
MarketDataOf(asset_id, md_py) ==
    MarketData(asset_id, md_py.spot, md_py.rate, md_py.vol)

\* mutants of PortfolioOwner and MarketMapOwner: the object is a module-level
\* global, shared by the invocations
PortfolioOwnerShared(r) == 1

MarketMapOwnerShared(r) == 1

\* the locals "portfolio" and "market_data_map_cpp" belong to the invocation
PortfolioOwner(r) == r

MarketMapOwner(r) == r

---------------------------------------------------------------------------
(* The requests the model submits *)

AssetIds == {"AAPL", "MSFT"}

PortfolioItems ==
    [type : {"call", "put"}, strike : {100}, expiry : {1},
     asset_id : AssetIds, quantity : {-1, 1}]
    \cup [type : {"call", "put"}, strike : {100}, expiry : {0},
          asset_id : {"MSFT"}, quantity : {2}]
    \cup [type : {"call"}, strike : {0}, expiry : {1},
          asset_id : AssetIds, quantity : {1}]
    \cup [type : {"Call", "PUT"}, strike : {100}, expiry : {1},
          asset_id : {"AAPL"}, quantity : {1}]
    \cup [type : {"put"}, strike : {100}, expiry : {1},
          asset_id : {"AAPL"}, quantity : {0}]

MarketDataItems(asset_id) ==
    IF asset_id = "AAPL"
    THEN {[spot |-> 100, rate |-> 50, vol |-> 200],
          [spot |-> 0, rate |-> 50, vol |-> 200],
          [spot |-> 100, rate |-> 50, vol |-> 0]}
    ELSE {[spot |-> 150, rate |-> 50, vol |-> 200]}

Portfolios == UNION {[1..n -> PortfolioItems] : n \in 0..MaxItems}

MarketDataMaps ==
    UNION {{m \in [keys -> UNION {MarketDataItems(a) : a \in keys}] :
               \A a \in keys : m[a] \in MarketDataItems(a)} :
           keys \in SUBSET AssetIds}

RequestBodies == [portfolio : Portfolios, market_data : MarketDataMaps]

\* the bodies of the requests that run concurrently
ConcurrentBodies ==
    LET longCall == [type |-> "call", strike |-> 100, expiry |-> 1,
                     asset_id |-> "AAPL", quantity |-> 1]
        shortCall == [longCall EXCEPT !.quantity = -1]
        shortPut == [type |-> "put", strike |-> 100, expiry |-> 1,
                     asset_id |-> "MSFT", quantity |-> -1]
        aapl == [spot |-> 100, rate |-> 50, vol |-> 200]
        msft == [spot |-> 150, rate |-> 50, vol |-> 200]
    IN  [portfolio : {<<longCall, shortPut>>, <<shortCall>>},
         market_data : {[a \in {"AAPL"} |-> aapl],
                        [a \in AssetIds |-> IF a = "AAPL" THEN aapl ELSE msft]}]

NoRequest == [portfolio |-> <<>>, market_data |-> EmptyMap]

NoException == [kind |-> "None", message |-> ""]

NoResult == [unset |-> TRUE]

---------------------------------------------------------------------------
(* The state machine *)

Locals ==
    /\ pidx = [r \in Requests |-> 0]
    /\ mseen = [r \in Requests |-> {}]
    /\ portfolio = [r \in Requests |-> EmptyPortfolio]
    /\ market_data_map_cpp = [r \in Requests |-> EmptyMap]
    /\ result_cpp = [r \in Requests |-> NoResult]
    /\ exc = [r \in Requests |-> NoException]
    /\ visited = [r \in Requests |-> 0]
    /\ responses = [r \in Requests |-> <<>>]

\* one request has arrived, with any body
Init ==
    /\ \E body \in RequestBodies :
           req = [r \in Requests |-> IF r = 1 THEN body ELSE NoRequest]
    /\ pc = [r \in Requests |-> IF r = 1 THEN "request" ELSE "idle"]
    /\ Locals

\* every request has arrived
InitConcurrent ==
    /\ req \in [Requests -> ConcurrentBodies]
    /\ pc = [r \in Requests |-> "request"]
    /\ Locals

\* the body is validated against CalculateRequest before calculate_risk runs
ValidateRequest(r) ==
    /\ pc[r] = "request"
    /\ IF CalculateRequestValid(req[r])
       THEN /\ pc' = [pc EXCEPT ![r] = "L43"]
            /\ UNCHANGED responses
       ELSE /\ pc' = [pc EXCEPT ![r] = "rejected"]
            /\ responses' = [responses EXCEPT ![r] = Append(@, ValidationErrorResponse)]
    /\ UNCHANGED <<req, pidx, mseen, portfolio, market_data_map_cpp, result_cpp,
                   exc, visited>>

\* portfolio = quant_risk_engine.Portfolio()
CreatePortfolio(r) ==
    /\ pc[r] = "L43"
    /\ portfolio' = [portfolio EXCEPT ![PortfolioOwner(r)] = EmptyPortfolio]
    /\ pc' = [pc EXCEPT ![r] = "L44"]
    /\ UNCHANGED <<req, pidx, mseen, market_data_map_cpp, result_cpp, exc,
                   visited, responses>>

\* one turn of "for item in portfolio_data", or its end
AddInstrument(r) ==
    /\ pc[r] = "L44"
    /\ IF pidx[r] < Len(req[r].portfolio)
       THEN LET item == ItemAt(req[r].portfolio, pidx[r])
            IN  /\ portfolio' = [portfolio EXCEPT ![PortfolioOwner(r)] =
                                    add_instrument(@, OptionOf(item), QuantityOf(item))]
                /\ pidx' = [pidx EXCEPT ![r] = @ + 1]
                /\ UNCHANGED pc
       ELSE /\ pc' = [pc EXCEPT ![r] = "L54"]
            /\ UNCHANGED <<portfolio, pidx>>
    /\ UNCHANGED <<req, mseen, market_data_map_cpp, result_cpp, exc, visited,
                   responses>>

\* market_data_map_cpp = {}
CreateMarketMap(r) ==
    /\ pc[r] = "L54"
    /\ market_data_map_cpp' =
           [market_data_map_cpp EXCEPT ![MarketMapOwner(r)] = EmptyMap]
    /\ pc' = [pc EXCEPT ![r] = "L55"]
    /\ UNCHANGED <<req, pidx, mseen, portfolio, result_cpp, exc, visited,
                   responses>>

\* one turn of "for asset_id, md_py in market_data_map_py.items()", or its end
AddMarketData(r) ==
    /\ pc[r] = "L55"
    /\ IF mseen[r] # DOMAIN req[r].market_data
       THEN \E asset_id \in DOMAIN req[r].market_data \ mseen[r] :
                LET md_cpp == MarketDataOf(asset_id, req[r].market_data[asset_id])
                    old == market_data_map_cpp[MarketMapOwner(r)]
                IN  /\ market_data_map_cpp' =
                           [market_data_map_cpp EXCEPT ![MarketMapOwner(r)] =
                               [a \in DOMAIN old \cup {asset_id} |->
                                   IF a = asset_id THEN md_cpp ELSE old[a]]]
                    /\ mseen' = [mseen EXCEPT ![r] = @ \cup {asset_id}]
                    /\ UNCHANGED pc
       ELSE /\ pc' = [pc EXCEPT ![r] = "L63"]
            /\ UNCHANGED <<market_data_map_cpp, mseen>>
    /\ UNCHANGED <<req, pidx, portfolio, result_cpp, exc, visited, responses>>

\* engine = RiskEngine(); result_cpp = engine.calculate_portfolio_risk(...)
CallEngine(r) ==
    /\ pc[r] = "L63"
    /\ LET out == calculate_portfolio_risk(portfolio[PortfolioOwner(r)],
                      market_data_map_cpp[MarketMapOwner(r)])
       IN  /\ visited' = [visited EXCEPT ![r] = out.visited]
           /\ IF out.ok
              THEN /\ result_cpp' = [result_cpp EXCEPT ![r] = out.result]
                   /\ pc' = [pc EXCEPT ![r] = "L66"]
                   /\ UNCHANGED exc
              ELSE /\ exc' = [exc EXCEPT ![r] = out.error]
                   /\ pc' = [pc EXCEPT ![r] = "L76"]
                   /\ UNCHANGED result_cpp
    /\ UNCHANGED <<req, pidx, mseen, portfolio, market_data_map_cpp, responses>>

\* result_py = RiskResult(...); return result_py
ReturnResult(r) ==
    /\ pc[r] = "L66"
    /\ responses' = [responses EXCEPT ![r] = Append(@, SuccessResponse(result_cpp[r]))]
    /\ pc' = [pc EXCEPT ![r] = "done"]
    /\ UNCHANGED <<req, pidx, mseen, portfolio, market_data_map_cpp, result_cpp,
                   exc, visited>>

\* except Exception as e: raise HTTPException(status_code=500, detail=str(e))
HandleException(r) ==
    /\ pc[r] = "L76"
    /\ responses' = [responses EXCEPT ![r] = Append(@, HTTPExceptionFor(exc[r]))]
    /\ pc' = [pc EXCEPT ![r] = "done"]
    /\ UNCHANGED <<req, pidx, mseen, portfolio, market_data_map_cpp, result_cpp,
                   exc, visited>>

Next ==
    \E r \in Requests :
        \/ ValidateRequest(r)
        \/ CreatePortfolio(r)
        \/ AddInstrument(r)
        \/ CreateMarketMap(r)
        \/ AddMarketData(r)
        \/ CallEngine(r)
        \/ ReturnResult(r)
        \/ HandleException(r)

Spec == Init /\ [][Next]_vars

SpecConcurrent == InitConcurrent /\ [][Next]_vars

---------------------------------------------------------------------------
(* What the properties below speak of *)

Items(r) == req[r].portfolio

\* calculate_risk has run to its end for request r
Finished(r) == pc[r] = "done"

\* the portfolio loop of request r has ended
PortfolioBuilt(r) == pc[r] \in {"L54", "L55", "L63", "L66", "L76", "done"}

IsFailureReport(resp) ==
    /\ DOMAIN resp = {"status_code", "detail"}
    /\ resp.status_code = 500

IsRiskResult(resp) ==
    /\ DOMAIN resp = {"status_code", "body"}
    /\ resp.status_code = 200

\* the error item i of the request meets when it is looked at on its own
ErrorAlone(r, i) ==
    LET item == Items(r)[i]
        md == req[r].market_data
    IN  IF item.asset_id \notin DOMAIN md THEN "MissingMarketDataError"
        ELSE IF item.strike <= 0 THEN "InvalidInstrumentError"
        ELSE IF md[item.asset_id].spot <= 0 THEN "InvalidMarketDataError"
        ELSE "None"

Erroneous(r) == {i \in 1..Len(Items(r)) : ErrorAlone(r, i) # "None"}

Missing(r) == {i \in 1..Len(Items(r)) : ErrorAlone(r, i) = "MissingMarketDataError"}

First(S) == CHOOSE i \in S : \A j \in S : i <= j

MissingMessage(r, i) == "Market data not found for asset: " \o Items(r)[i].asset_id

---------------------------------------------------------------------------
(* C1 *)

\* C1, as stated: whenever some position's asset has no market data, the
\* request fails with MissingMarketDataError naming such an asset, and no
\* RiskResult is returned.
C1_AlwaysMissingMarketDataError ==
    \A r \in Requests :
        Finished(r) /\ Missing(r) # {} =>
            /\ Len(responses[r]) = 1
            /\ IsFailureReport(responses[r][1])
            /\ exc[r].kind = "MissingMarketDataError"
            /\ \E i \in Missing(r) : exc[r].message = MissingMessage(r, i)

\* C1, amended: whenever some position's asset has no market data, the request
\* fails and no RiskResult is returned, not even totals of the positions
\* priced before; the error is MissingMarketDataError naming the asset of the
\* first such position, unless a position before it fails pricing, and then
\* it is that position's InvalidInstrumentError or InvalidMarketDataError.
C1_MissingMarketDataAllOrNothing ==
    \A r \in Requests :
        Finished(r) /\ Missing(r) # {} =>
            /\ Len(responses[r]) = 1
            /\ IsFailureReport(responses[r][1])
            /\ result_cpp[r] = NoResult
            /\ IF First(Erroneous(r)) = First(Missing(r))
               THEN /\ exc[r].kind = "MissingMarketDataError"
                    /\ exc[r].message = MissingMessage(r, First(Missing(r)))
                    /\ responses[r][1].detail = MissingMessage(r, First(Missing(r)))
               ELSE exc[r].kind \in {"InvalidInstrumentError", "InvalidMarketDataError"}

\* a request failed on its second position's missing asset, after the first
\* position was priced
C1_Witness ==
    \E r \in Requests :
        /\ Finished(r)
        /\ Missing(r) # {}
        /\ First(Missing(r)) = 2
        /\ visited[r] = 2
        /\ exc[r].kind = "MissingMarketDataError"
        /\ IsFailureReport(responses[r][1])

---------------------------------------------------------------------------
(* C2 *)

\* the texts a failure report carries
ReportTexts(resp) == {resp[f] : f \in DOMAIN resp \ {"status_code"}}

\* C2, as stated: an error of the core yields exactly one failure report, and
\* the report carries both the kind of the error and its message.
C2_ReportCarriesKindAndMessage ==
    \A r \in Requests :
        Finished(r) /\ exc[r] # NoException =>
            /\ Len(responses[r]) = 1
            /\ exc[r].message \in ReportTexts(responses[r][1])
            /\ exc[r].kind \in ReportTexts(responses[r][1])

\* C2, amended: an error of the core yields exactly one failure report, made
\* when the handler runs; the report is a status 500 whose detail is the
\* message of the error and it carries nothing else: the kind is not in it.
C2_ReportCarriesMessage ==
    \A r \in Requests :
        /\ pc[r] = "L76" => exc[r] # NoException /\ responses[r] = <<>>
        /\ Finished(r) /\ exc[r] # NoException =>
               /\ Len(responses[r]) = 1
               /\ IsFailureReport(responses[r][1])
               /\ responses[r][1].detail = exc[r].message
               /\ exc[r].kind \notin ReportTexts(responses[r][1])

\* a request failed with an InvalidMarketDataError and was answered
C2_Witness ==
    \E r \in Requests :
        /\ Finished(r)
        /\ exc[r].kind = "InvalidMarketDataError"
        /\ Len(responses[r]) = 1
        /\ responses[r][1].detail = "Spot price must be positive"

---------------------------------------------------------------------------
(* C3 *)

\* C3, as stated: a request whose item types are spellings of "call" or "put"
\* in any mix of cases is accepted, and each item becomes a Call or a Put
\* position after its spelling.
C3_TypeCaseInsensitive ==
    \A r \in Requests :
        (/\ pc[r] \notin {"idle", "request"}
         /\ \A i \in 1..Len(Items(r)) : Lower(Items(r)[i].type) \in LiteralTypes)
        =>
            /\ pc[r] # "rejected"
            /\ PortfolioBuilt(r) =>
                   \A i \in 1..Len(Items(r)) :
                       portfolio[PortfolioOwner(r)][i].instrument.option_type =
                           (IF Lower(Items(r)[i].type) = "call" THEN Call ELSE Put)

---------------------------------------------------------------------------
(* C4 and C5 *)

RECURSIVE PortfolioAlone(_, _, _)
PortfolioAlone(portfolio_data, k, p) ==
    IF k >= Len(portfolio_data) THEN p
    ELSE LET item == ItemAt(portfolio_data, k)
         IN  PortfolioAlone(portfolio_data, k + 1,
                 add_instrument(p, OptionOf(item), QuantityOf(item)))

\* the response calculate_risk gives a body when no other request runs
ResponseAlone(body) ==
    IF ~CalculateRequestValid(body) THEN ValidationErrorResponse
    ELSE LET p == PortfolioAlone(body.portfolio, 0, EmptyPortfolio)
             m == [a \in DOMAIN body.market_data |->
                      MarketDataOf(a, body.market_data[a])]
             out == calculate_portfolio_risk(p, m)
         IN  IF out.ok THEN SuccessResponse(out.result)
             ELSE HTTPExceptionFor(out.error)

\* C5: under every interleaving of the requests, each request's outcome is
\* the outcome it has when it runs alone on its own inputs.
C5_ConcurrentAsAlone ==
    \A r \in Requests :
        Finished(r) => responses[r] = <<ResponseAlone(req[r])>>

\* two requests with different bodies have run to their ends, one failing on
\* an asset that only the other's market data holds
C5_Witness ==
    \E r1, r2 \in Requests :
        /\ req[r1] # req[r2]
        /\ Finished(r1) /\ exc[r1].kind = "MissingMarketDataError"
        /\ Finished(r2) /\ IsRiskResult(responses[r2][1])
        /\ DOMAIN req[r2].market_data = AssetIds

---------------------------------------------------------------------------
(* C6 *)

\* C6: every RiskResult returned has value_at_risk_95 >= 0, whatever the
\* signs and sizes of the quantities.
C6_VaRNonNegative ==
    \A r \in Requests :
        \A k \in 1..Len(responses[r]) :
            IsRiskResult(responses[r][k]) =>
                responses[r][k].body.value_at_risk_95 >= 0

\* a net short portfolio (negative total delta) of mixed long and short
\* positions was answered with a positive VaR
C6_Witness ==
    \E r \in Requests :
        /\ Finished(r)
        /\ Len(responses[r]) = 1
        /\ IsRiskResult(responses[r][1])
        /\ responses[r][1].body.total_delta < 0
        /\ responses[r][1].body.value_at_risk_95 > 0
        /\ \E i, j \in 1..Len(Items(r)) :
               Items(r)[i].quantity > 0 /\ Items(r)[j].quantity < 0

---------------------------------------------------------------------------
(* C7 *)

\* C7: when positions are erroneous, the error surfaced is the one of the
\* earliest erroneous position in portfolio order, the aggregator stops at
\* that position, and one error is reported, not one per position.
C7_FirstErrorAborts ==
    \A r \in Requests :
        Finished(r) /\ Erroneous(r) # {} =>
            LET i == First(Erroneous(r))
            IN  /\ exc[r].kind = ErrorAlone(r, i)
                /\ exc[r].kind = "MissingMarketDataError" =>
                       exc[r].message = MissingMessage(r, i)
                /\ visited[r] = i
                /\ result_cpp[r] = NoResult
                /\ Len(responses[r]) = 1
                /\ IsFailureReport(responses[r][1])
                /\ responses[r][1].detail = exc[r].message

\* a request with two erroneous positions of different kinds, the first one an
\* invalid strike, has failed
C7_Witness ==
    \E r \in Requests :
        /\ Finished(r)
        /\ Cardinality(Erroneous(r)) = 2
        /\ ErrorAlone(r, 1) = "InvalidInstrumentError"
        /\ ErrorAlone(r, 2) = "MissingMarketDataError"
        /\ exc[r].kind = "InvalidInstrumentError"
        /\ visited[r] = 1

---------------------------------------------------------------------------
(* C8 *)

SameInstrument(a, b) ==
    /\ a.type = b.type
    /\ a.strike = b.strike
    /\ a.expiry = b.expiry
    /\ a.asset_id = b.asset_id

\* request r holds one valid instrument twice, once long one unit and once
\* short one unit, with valid market data for it
LongShortPair(r) ==
    /\ Len(Items(r)) = 2
    /\ SameInstrument(Items(r)[1], Items(r)[2])
    /\ {Items(r)[1].quantity, Items(r)[2].quantity} = {1, -1}
    /\ Erroneous(r) = {}

\* C8: a portfolio of one valid instrument with quantity +1 and the same
\* instrument with quantity -1 succeeds with total_pv = 0 and all four
\* Greeks = 0.
C8_LongShortSymmetry ==
    \A r \in Requests :
        Finished(r) /\ LongShortPair(r) =>
            /\ Len(responses[r]) = 1
            /\ IsRiskResult(responses[r][1])
            /\ responses[r][1].body.total_pv = 0
            /\ responses[r][1].body.total_delta = 0
            /\ responses[r][1].body.total_gamma = 0
            /\ responses[r][1].body.total_vega = 0
            /\ responses[r][1].body.total_theta = 0

\* a long and a short unit of one call, short first, have been aggregated
C8_Witness ==
    \E r \in Requests :
        /\ Finished(r)
        /\ LongShortPair(r)
        /\ Items(r)[1].type = "call"
        /\ Items(r)[1].quantity = -1
        /\ visited[r] = 2
        /\ IsRiskResult(responses[r][1])

---------------------------------------------------------------------------
(* C9 *)

ZeroRiskResult ==
    [total_pv |-> 0, total_delta |-> 0, total_gamma |-> 0, total_vega |-> 0,
     total_theta |-> 0, value_at_risk_95 |-> 0]

\* C9: a request with no position, whatever its market data, is accepted,
\* does not fail, and is answered with a RiskResult of six zeros.
C9_EmptyPortfolioAllZeros ==
    \A r \in Requests :
        pc[r] # "idle" /\ Items(r) = <<>> =>
            /\ pc[r] \notin {"rejected", "L76"}
            /\ Finished(r) =>
                   responses[r] = <<[status_code |-> 200, body |-> ZeroRiskResult]>>

\* a request with no position and market data for two assets was answered
C9_Witness ==
    \E r \in Requests :
        /\ Finished(r)
        /\ Items(r) = <<>>
        /\ DOMAIN req[r].market_data = AssetIds
        /\ Len(responses[r]) = 1

---------------------------------------------------------------------------
(* C10 *)

\* position i of the portfolio is item i of the request
Mirrors(position, item) ==
    /\ position.instrument.strike = item.strike
    /\ position.instrument.time_to_expiry = item.expiry
    /\ position.instrument.underlying_asset_id = item.asset_id
    /\ position.quantity = item.quantity
    /\ position.instrument.option_type = Call <=> item.type = "call"
    /\ position.instrument.option_type = Put <=> item.type = "put"

\* C10: the portfolio handed to the engine holds one position per request
\* item, in request order, duplicates kept, and position i carries item i's
\* strike, expiry, asset_id and quantity, with type Call exactly for 'call' and
\* Put exactly for 'put'.
C10_PortfolioMirrorsRequest ==
    \A r \in Requests :
        LET p == portfolio[PortfolioOwner(r)]
        IN  /\ pc[r] = "L44" =>
                   /\ Len(p) = pidx[r]
                   /\ \A i \in 1..Len(p) : Mirrors(p[i], Items(r)[i])
            /\ PortfolioBuilt(r) =>
                   /\ Len(p) = Len(Items(r))
                   /\ \A i \in 1..Len(p) : Mirrors(p[i], Items(r)[i])

\* the engine is about to be called with a portfolio built from a call, and
\* from the same item twice
C10_Witness ==
    \E r \in Requests :
        /\ pc[r] = "L63"
        /\ Len(Items(r)) = 2
        /\ Items(r)[1] = Items(r)[2]
        /\ Items(r)[1].type = "call"
        /\ Len(portfolio[PortfolioOwner(r)]) = 2

====
